------------------------------ MODULE Spec2Model ------------------------------
(***************************************************************************)
(* A model of solution.py: the CarCrashAnalysis object (six tables read    *)
(* from CSV files and eight analyses over them) and the __main__ script    *)
(* that constructs the object and prints the eight results in turn.        *)
(*                                                                         *)
(* A table is a sequence of rows; a row is a record of the columns the     *)
(* analyses read.  Every CSV value is a string (the files are read with    *)
(* header = True and no schema), a missing value is NULL.  The engine      *)
(* leaves the order of rows unspecified after a shuffle (groupBy, distinct,*)
(* window partitioning) and among rows with equal sort keys; every         *)
(* operator that depends on such an order is modelled by the set of all    *)
(* outcomes the engine may produce.  A DataFrame is lazy: each action on   *)
(* it (toPandas, count, collect) evaluates the plan again, so the export   *)
(* and the returned value of one analysis are drawn independently.         *)
(***************************************************************************)
EXTENDS Integers, Sequences, FiniteSets, TLC

VARIABLES
    pc,         \* position of __main__
    files,      \* the six CSV files named by config.json (the environment)
    charges,    \* self.charges
    damages,    \* self.damages
    endorse,    \* self.endorse
    primary,    \* self.primary
    restrict,   \* self.restrict
    units,      \* self.units
    started,    \* analyses that have been called
    completed,  \* analyses that have returned
    result,     \* value returned by each completed analysis
    written,    \* analyses whose to_csv has written its file
    exported,   \* contents of each written file
    printed,    \* console lines, in order
    top_li,     \* the two lists analysis8 collected
    err         \* the exception that ended the run, if any

tables == <<charges, damages, endorse, primary, restrict, units>>
vars == <<pc, files, charges, damages, endorse, primary, restrict, units,
          started, completed, result, written, exported, printed,
          top_li, err>>

-----------------------------------------------------------------------------
(* Values *)

\* A missing CSV value (SQL NULL) in a string column.
NULL == "<null>"

\* The result of casting a non-numeric string to double (SQL NULL).
NullNum == 0 - 1

\* Three-valued SQL booleans.
T3 == "true"
F3 == "false"
U3 == "unknown"

Not3(a) == IF a = U3 THEN U3 ELSE IF a = T3 THEN F3 ELSE T3

And3(a, b) ==
    IF a = F3 \/ b = F3 THEN F3
    ELSE IF a = U3 \/ b = U3 THEN U3 ELSE T3

Or3(a, b) ==
    IF a = T3 \/ b = T3 THEN T3
    ELSE IF a = U3 \/ b = U3 THEN U3 ELSE F3

Bool3(b) == IF b THEN T3 ELSE F3

\* The code points of the strings that are compared or searched character
\* by character.
CodePoints ==
   ("NONE" :> <<78, 79, 78, 69>>) @@
   ("SPEED" :> <<83, 80, 69, 69, 68>>) @@
   ("ALCOHOL" :> <<65, 76, 67, 79, 72, 79, 76>>) @@
   ("DRIVER" :> <<68, 82, 73, 86, 69, 82>>) @@
   ("DAMAGED 4" :> <<68, 65, 77, 65, 71, 69, 68, 32, 52>>) @@
   ("DAMAGED 1 MINIMUM" :> <<68, 65, 77, 65, 71, 69, 68, 32, 49, 32, 77, 73, 78, 73, 77, 85, 77>>) @@
   ("DAMAGED 5" :> <<68, 65, 77, 65, 71, 69, 68, 32, 53>>) @@
   ("DAMAGED 10" :> <<68, 65, 77, 65, 71, 69, 68, 32, 49, 48>>) @@
   ("DAMAGED 7 HIGHEST" :> <<68, 65, 77, 65, 71, 69, 68, 32, 55, 32, 72, 73, 71, 72, 69, 83, 84>>) @@
   ("NA" :> <<78, 65>>) @@
   ("NO DAMAGE" :> <<78, 79, 32, 68, 65, 77, 65, 71, 69>>) @@
   ("INVALID VALUE" :> <<73, 78, 86, 65, 76, 73, 68, 32, 86, 65, 76, 85, 69>>) @@
   ("NONE1" :> <<78, 79, 78, 69, 49>>) @@
   ("FENCE" :> <<70, 69, 78, 67, 69>>) @@
   ("SPEEDING" :> <<83, 80, 69, 69, 68, 73, 78, 71>>) @@
   ("FAIL TO CONTROL SPEED" :> <<70, 65, 73, 76, 32, 84, 79, 32, 67, 79, 78, 84, 82, 79, 76, 32, 83, 80, 69, 69, 68>>) @@
   ("DUI" :> <<68, 85, 73>>) @@
   ("UNDER INFLUENCE - ALCOHOL" :> <<85, 78, 68, 69, 82, 32, 73, 78, 70, 76, 85, 69, 78, 67, 69, 32, 45, 32, 65, 76, 67, 79, 72, 79, 76>>) @@
   ("HAD BEEN DRINKING" :> <<72, 65, 68, 32, 66, 69, 69, 78, 32, 68, 82, 73, 78, 75, 73, 78, 71>>) @@
   ("DRIVER LICENSE" :> <<68, 82, 73, 86, 69, 82, 32, 76, 73, 67, 69, 78, 83, 69>>) @@
   ("COMMERCIAL DRIVER LIC." :> <<67, 79, 77, 77, 69, 82, 67, 73, 65, 76, 32, 68, 82, 73, 86, 69, 82, 32, 76, 73, 67, 46>>) @@
   ("UNLICENSED" :> <<85, 78, 76, 73, 67, 69, 78, 83, 69, 68>>)

Chars(s) == CodePoints[s]

\* UTF8String.compareTo on ASCII strings: the first differing code point
\* decides, a proper prefix is smaller.
RECURSIVE SeqLess(_, _)
SeqLess(a, b) ==
    IF b = <<>> THEN FALSE
    ELSE IF a = <<>> THEN TRUE
    ELSE IF Head(a) # Head(b) THEN Head(a) < Head(b)
    ELSE SeqLess(Tail(a), Tail(b))

StrGreater(a, b) == SeqLess(Chars(b), Chars(a))

\* Column.contains(literal): the literal occurs as a substring.
SeqContains(s, sub) ==
    \E i \in 0..(Len(s) - Len(sub)) : SubSeq(s, i + 1, i + Len(sub)) = sub

StrContains(a, lit) == SeqContains(Chars(a), Chars(lit))

\* Column predicates; a NULL operand makes the predicate unknown.
ColEq(v, lit) == IF v = NULL THEN U3 ELSE Bool3(v = lit)
ColNe(v, lit) == IF v = NULL THEN U3 ELSE Bool3(v # lit)
ColGt(v, lit) == IF v = NULL THEN U3 ELSE Bool3(StrGreater(v, lit))
ColContains(v, lit) == IF v = NULL THEN U3 ELSE Bool3(StrContains(v, lit))
ColIsin(v, lits) == IF v = NULL THEN U3 ELSE Bool3(v \in lits)

\* The decimal strings of the count columns and their value as a double.
Decimal ==
    <<"0", "1", "2", "3", "4", "5", "6", "7", "8", "9", "10", "11", "12",
      "13", "14", "15", "16", "17", "18", "19", "20">>

\* Cast of a string column to double for arithmetic: the number written,
\* NULL for anything that is not a number.
CastDouble(s) ==
    IF \E i \in DOMAIN Decimal : Decimal[i] = s
    THEN (CHOOSE i \in DOMAIN Decimal : Decimal[i] = s) - 1
    ELSE NullNum

\* col + col: NULL if either operand is NULL.
ColAdd(a, b) == IF a = NullNum \/ b = NullNum THEN NullNum ELSE a + b

-----------------------------------------------------------------------------
(* Relational operators *)

Range(s) == {s[i] : i \in DOMAIN s}

\* DataFrame.limit(n)
Limit(s, n) == SubSeq(s, 1, IF Len(s) < n THEN Len(s) ELSE n)

\* Inner join on CRASH_ID: one row for every pair of a left row and a right
\* row with equal, non-NULL CRASH_ID, carrying the columns of both.
RECURSIVE Flatten(_)
Flatten(ss) ==
    IF ss = <<>> THEN <<>>
    ELSE IF Len(ss) = 1 THEN ss[1]
    ELSE LET h == Len(ss) \div 2
         IN  Flatten(SubSeq(ss, 1, h)) \o Flatten(SubSeq(ss, h + 1, Len(ss)))

JoinRow(l, r) == l @@ r

Join(left, right) ==
    Flatten([i \in DOMAIN left |->
        LET l == left[i]
            m == SelectSeq(right,
                     LAMBDA r : l.CRASH_ID # NULL /\ r.CRASH_ID = l.CRASH_ID)
        IN  [j \in DOMAIN m |-> JoinRow(l, m[j])]])

\* sum() over a group: NULL values are skipped, the sum of none is NULL.
RECURSIVE SeqSum(_)
SeqSum(s) ==
    IF s = <<>> THEN 0
    ELSE IF Len(s) = 1 THEN s[1]
    ELSE LET h == Len(s) \div 2
         IN  SeqSum(SubSeq(s, 1, h)) + SeqSum(SubSeq(s, h + 1, Len(s)))

AggSum(vals) ==
    LET nn == SelectSeq(vals, LAMBDA v : v # NullNum)
    IN  IF nn = <<>> THEN NullNum ELSE SeqSum(nn)

\* Variant: ascending order (NULLS FIRST).
AscGE(a, b) == a = NullNum \/ (b # NullNum /\ a <= b)

\* ORDER BY k DESC is DESC NULLS LAST.
DescGE(a, b) == b = NullNum \/ (a # NullNum /\ a >= b)

\* Every sequence of the rows of S in descending order of column f: rows
\* with equal f may come in any order.
RECURSIVE OrderByDesc(_, _)
OrderByDesc(S, f) ==
    IF S = {} THEN {<<>>}
    ELSE LET top == {r \in S : \A q \in S : DescGE(r[f], q[f])}
         IN  UNION {{<<r>> \o s : s \in OrderByDesc(S \ {r}, f)} : r \in top}

\* Every order in which a DataFrame with no defined order may be collected.
RECURSIVE Collect(_)
Collect(S) ==
    IF S = {} THEN {<<>>}
    ELSE UNION {{<<r>> \o s : s \in Collect(S \ {r})} : r \in S}

\* groupBy(col).count(): one row per distinct value of col (NULL is a value
\* of its own), in no defined order.
GroupCount(t, c) ==
    {(c :> k) @@ ("count" :> Cardinality({i \in DOMAIN t : t[i][c] = k})) :
        k \in {t[i][c] : i \in DOMAIN t}}

\* row_number().over(Window.partitionBy(p).orderBy(col(f).desc())): every
\* way of numbering the rows of each partition 1, 2, ... in descending
\* order of f.  Partitions come out in no defined order.
Numbered(o) == {o[i] @@ ("rn" :> i) : i \in DOMAIN o}

RECURSIVE RowNumberOver(_, _, _)
RowNumberOver(S, p, f) ==
    IF S = {} THEN {{}}
    ELSE LET b == (CHOOSE r \in S : TRUE)[p]
             part == {r \in S : r[p] = b}
             rest == RowNumberOver(S \ part, p, f)
         IN  {Numbered(o) \cup x : o \in OrderByDesc(part, f), x \in rest}

Column(s, c) == [i \in DOMAIN s |-> s[i][c]]

-----------------------------------------------------------------------------
(* Program constants *)

\* analysis4 keeps the rows numbered RankLo..RankHi.
RankLo == 5
RankHi == 15
\* analysis8 keeps the first TopColours colours and TopStates states, and
\* returns the first TopMakes makes; analysis6 the first TopZips zip codes.
TopColours == 10
TopStates == 25
TopMakes == 5
TopZips == 5

Analyses == 1..8

-----------------------------------------------------------------------------
(* CarCrashAnalysis.  self is the record of the six tables.  Each analysis *)
(* yields the set of its possible outcomes: the table written to the       *)
(* output file, the value returned (or the exception raised after the      *)
(* file is written), and self as the call leaves it.                       *)

Outcome(e, r, x, s) == [export |-> e, ret |-> r, raises |-> x, self |-> s]

analysis1(self) ==
    LET df == SelectSeq(self.primary, LAMBDA r :
                  And3(ColEq(r.PRSN_INJRY_SEV_ID, "KILLED"),
                       ColEq(r.PRSN_GNDR_ID, "MALE")) = T3)
    IN  {Outcome(df, Len(df), "none", self)}

\* Variant: the filtered table is assigned back to self.units.
analysis2_inplace(self) ==
    LET df == SelectSeq(self.units, LAMBDA r :
                  ColEq(r.VEH_BODY_STYL_ID, "MOTORCYCLE") = T3)
    IN  {Outcome(df, Len(df), "none", [self EXCEPT !.units = df])}

analysis2(self) ==
    LET df == SelectSeq(self.units, LAMBDA r :
                  ColEq(r.VEH_BODY_STYL_ID, "MOTORCYCLE") = T3)
    IN  {Outcome(df, Len(df), "none", self)}

\* Variant: first() in place of collect()[0], None for an empty result.
analysis3_first(self) ==
    LET female == SelectSeq(self.primary, LAMBDA r :
                      ColEq(r.PRSN_GNDR_ID, "FEMALE") = T3)
        grouped == {[DRVR_LIC_STATE_ID |-> g.DRVR_LIC_STATE_ID, cnt |-> g.count] :
                       g \in GroupCount(female, "DRVR_LIC_STATE_ID")}
        df == {Limit(o, 1) : o \in OrderByDesc(grouped, "cnt")}
    IN  {Outcome(e,
                 IF r = <<>> THEN [DRVR_LIC_STATE_ID |-> NULL]
                 ELSE [DRVR_LIC_STATE_ID |-> r[1].DRVR_LIC_STATE_ID],
                 "none", self) : e \in df, r \in df}

\* Variant: the gender filter is missing.
analysis3_all(self) ==
    LET grouped == {[DRVR_LIC_STATE_ID |-> g.DRVR_LIC_STATE_ID, cnt |-> g.count] :
                       g \in GroupCount(self.primary, "DRVR_LIC_STATE_ID")}
        df == {Limit(o, 1) : o \in OrderByDesc(grouped, "cnt")}
    IN  {Outcome(e,
                 IF r = <<>> THEN NULL
                 ELSE [DRVR_LIC_STATE_ID |-> r[1].DRVR_LIC_STATE_ID],
                 IF r = <<>> THEN "IndexError" ELSE "none",
                 self) : e \in df, r \in df}

analysis3(self) ==
    LET female == SelectSeq(self.primary, LAMBDA r :
                      ColEq(r.PRSN_GNDR_ID, "FEMALE") = T3)
        grouped == {[DRVR_LIC_STATE_ID |-> g.DRVR_LIC_STATE_ID, cnt |-> g.count] :
                       g \in GroupCount(female, "DRVR_LIC_STATE_ID")}
        df == {Limit(o, 1) : o \in OrderByDesc(grouped, "cnt")}
    IN  {Outcome(e,
                 IF r = <<>> THEN NULL
                 ELSE [DRVR_LIC_STATE_ID |-> r[1].DRVR_LIC_STATE_ID],
                 IF r = <<>> THEN "IndexError" ELSE "none",
                 self) : e \in df, r \in df}

\* Variant: make 'NA' is removed after the rows are numbered.
analysis4_late_na(self) ==
    LET total == [i \in DOMAIN self.units |->
                     ColAdd(CastDouble(self.units[i].TOT_INJRY_CNT),
                            CastDouble(self.units[i].DEATH_CNT))]
        makes == {self.units[i].VEH_MAKE_ID : i \in DOMAIN self.units}
        rowsOf(m) == SelectSeq([i \in DOMAIN self.units |-> i],
                         LAMBDA i : self.units[i].VEH_MAKE_ID = m)
        grouped == {[VEH_MAKE_ID |-> m,
                     AGG_TOTAL_INJ_DEATH_CNT |->
                         AggSum([j \in DOMAIN rowsOf(m) |-> total[rowsOf(m)[j]]])] :
                       m \in makes}
        windowed == OrderByDesc(grouped, "AGG_TOTAL_INJ_DEATH_CNT")
        df == {SelectSeq([i \in DOMAIN w |-> w[i] @@ ("rn" :> i)],
                         LAMBDA r : /\ r.rn >= RankLo /\ r.rn <= RankHi
                                    /\ ColNe(r.VEH_MAKE_ID, "NA") = T3) :
                  w \in windowed}
    IN  {Outcome(e, Column(r, "VEH_MAKE_ID"), "none", self) : e \in df, r \in df}

analysis4(self) ==
    LET total == [i \in DOMAIN self.units |->
                     ColAdd(CastDouble(self.units[i].TOT_INJRY_CNT),
                            CastDouble(self.units[i].DEATH_CNT))]
        makes == {self.units[i].VEH_MAKE_ID : i \in DOMAIN self.units}
        rowsOf(m) == SelectSeq([i \in DOMAIN self.units |-> i],
                         LAMBDA i : self.units[i].VEH_MAKE_ID = m)
        grouped == {[VEH_MAKE_ID |-> m,
                     AGG_TOTAL_INJ_DEATH_CNT |->
                         AggSum([j \in DOMAIN rowsOf(m) |-> total[rowsOf(m)[j]]])] :
                       m \in makes}
        ordered == OrderByDesc(grouped, "AGG_TOTAL_INJ_DEATH_CNT")
        kept == {SelectSeq(o, LAMBDA r : ColNe(r.VEH_MAKE_ID, "NA") = T3) :
                    o \in ordered}
        windowed == UNION {OrderByDesc(Range(k), "AGG_TOTAL_INJ_DEATH_CNT") :
                              k \in kept}
        df == {SelectSeq([i \in DOMAIN w |-> w[i] @@ ("rn" :> i)],
                         LAMBDA r : r.rn >= RankLo /\ r.rn <= RankHi) :
                  w \in windowed}
    IN  {Outcome(e, Column(r, "VEH_MAKE_ID"), "none", self) : e \in df, r \in df}

\* Variant: body style 'NA' is not removed.
analysis5_keep_na(self) ==
    LET joined == Join(self.primary, self.units)
        keys == {<<joined[i].VEH_BODY_STYL_ID, joined[i].PRSN_ETHNICITY_ID>> :
                    i \in DOMAIN joined}
        grouped == {[VEH_BODY_STYL_ID |-> k[1], PRSN_ETHNICITY_ID |-> k[2],
                     count |-> Cardinality({i \in DOMAIN joined :
                                   /\ joined[i].VEH_BODY_STYL_ID = k[1]
                                   /\ joined[i].PRSN_ETHNICITY_ID = k[2]})] :
                       k \in keys}
        windowed == RowNumberOver(grouped, "VEH_BODY_STYL_ID", "count")
        df == UNION {Collect({r \in w : r.rn = 1}) : w \in windowed}
    IN  {Outcome(e,
                 [i \in DOMAIN r |->
                     [VEH_BODY_STYL_ID |-> r[i].VEH_BODY_STYL_ID,
                      PRSN_ETHNICITY_ID |-> r[i].PRSN_ETHNICITY_ID]],
                 "none", self) : e \in df, r \in df}

analysis5(self) ==
    LET joined == Join(self.primary, self.units)
        keys == {<<joined[i].VEH_BODY_STYL_ID, joined[i].PRSN_ETHNICITY_ID>> :
                    i \in DOMAIN joined}
        grouped == {[VEH_BODY_STYL_ID |-> k[1], PRSN_ETHNICITY_ID |-> k[2],
                     count |-> Cardinality({i \in DOMAIN joined :
                                   /\ joined[i].VEH_BODY_STYL_ID = k[1]
                                   /\ joined[i].PRSN_ETHNICITY_ID = k[2]})] :
                       k \in keys}
        windowed == RowNumberOver(grouped, "VEH_BODY_STYL_ID", "count")
        df == UNION {Collect({r \in w :
                         /\ r.rn = 1
                         /\ Not3(ColIsin(r.VEH_BODY_STYL_ID, {"NA"})) = T3}) :
                        w \in windowed}
    IN  {Outcome(e,
                 [i \in DOMAIN r |->
                     [VEH_BODY_STYL_ID |-> r[i].VEH_BODY_STYL_ID,
                      PRSN_ETHNICITY_ID |-> r[i].PRSN_ETHNICITY_ID]],
                 "none", self) : e \in df, r \in df}

analysis6(self) ==
    LET joined == Join(self.primary, self.units)
        alcohol == SelectSeq(joined, LAMBDA r :
                       Or3(ColContains(r.CONTRIB_FACTR_1_ID, "ALCOHOL"),
                           ColContains(r.CONTRIB_FACTR_2_ID, "ALCOHOL")) = T3)
        zipped == SelectSeq(alcohol, LAMBDA r : r.DRVR_ZIP # NULL)
        df == {Limit(o, TopZips) :
                  o \in OrderByDesc(GroupCount(zipped, "DRVR_ZIP"), "count")}
    IN  {Outcome(e, Column(r, "DRVR_ZIP"), "none", self) : e \in df, r \in df}

\* Variant: the damage scales are compared by their number.
analysis7_numeric(self) ==
    LET above4 == {"DAMAGED 5", "DAMAGED 7 HIGHEST", "DAMAGED 10"}
        joined == Join(self.units, self.damages)
        none == SelectSeq(joined, LAMBDA r :
                    ColContains(r.DAMAGED_PROPERTY, "NONE") = T3)
        severe == SelectSeq(none, LAMBDA r :
                    Or3(ColIsin(r.VEH_DMAG_SCL_2_ID, above4),
                        ColIsin(r.VEH_DMAG_SCL_1_ID, above4)) = T3)
        df == SelectSeq(severe, LAMBDA r :
                    ColEq(r.FIN_RESP_TYPE_ID, "PROOF OF LIABILITY INSURANCE") = T3)
        distinct == {[CRASH_ID |-> df[i].CRASH_ID] : i \in DOMAIN df}
    IN  {Outcome(e, Cardinality(distinct), "none", self) : e \in Collect(distinct)}

analysis7(self) ==
    LET joined == Join(self.units, self.damages)
        none == SelectSeq(joined, LAMBDA r :
                    ColContains(r.DAMAGED_PROPERTY, "NONE") = T3)
        severe == SelectSeq(none, LAMBDA r :
                    Or3(And3(ColGt(r.VEH_DMAG_SCL_2_ID, "DAMAGED 4"),
                             Not3(ColIsin(r.VEH_DMAG_SCL_2_ID,
                                     {"INVALID VALUE", "NA", "NO DAMAGE"}))),
                        And3(ColGt(r.VEH_DMAG_SCL_1_ID, "DAMAGED 4"),
                             Not3(ColIsin(r.VEH_DMAG_SCL_1_ID,
                                     {"INVALID VALUE", "NA", "NO DAMAGE"})))) = T3)
        df == SelectSeq(severe, LAMBDA r :
                    ColEq(r.FIN_RESP_TYPE_ID, "PROOF OF LIABILITY INSURANCE") = T3)
        distinct == {[CRASH_ID |-> df[i].CRASH_ID] : i \in DOMAIN df}
    IN  {Outcome(e, Cardinality(distinct), "none", self) : e \in Collect(distinct)}

\* The two lists analysis8 collects before it builds its DataFrame.
top_vehicle_colour_li(self) ==
    {Column(Limit(SelectSeq(o, LAMBDA r : ColNe(r.VEH_COLOR_ID, "NA") = T3),
                  TopColours), "VEH_COLOR_ID") :
        o \in OrderByDesc(GroupCount(self.units, "VEH_COLOR_ID"), "count")}

\* Variant: limit(25) is applied before 'NA' is removed.
top_states_li_limit_first(self) ==
    {Column(SelectSeq(Limit(o, TopStates),
                      LAMBDA r : ColNe(r.VEH_LIC_STATE_ID, "NA") = T3),
            "VEH_LIC_STATE_ID") :
        o \in OrderByDesc(GroupCount(self.units, "VEH_LIC_STATE_ID"), "count")}

top_states_li(self) ==
    {Column(Limit(SelectSeq(o, LAMBDA r : ColNe(r.VEH_LIC_STATE_ID, "NA") = T3),
                  TopStates), "VEH_LIC_STATE_ID") :
        o \in OrderByDesc(GroupCount(self.units, "VEH_LIC_STATE_ID"), "count")}

analysis8_df(self, colours, states) ==
    LET picked == SelectSeq(self.units, LAMBDA r :
                      And3(ColIsin(r.VEH_COLOR_ID, Range(colours)),
                           ColIsin(r.VEH_LIC_STATE_ID, Range(states))) = T3)
        speeding == SelectSeq(Join(picked, self.charges), LAMBDA r :
                      ColContains(r.CHARGE, "SPEED") = T3)
        licensed == SelectSeq(Join(speeding, self.primary), LAMBDA r :
                      ColContains(r.DRVR_LIC_TYPE_ID, "DRIVER") = T3)
    IN  {Limit(o, TopMakes) :
            o \in OrderByDesc(GroupCount(licensed, "VEH_MAKE_ID"), "count")}

analysis8(self) ==
    UNION {LET df == analysis8_df(self, cl, sl)
           IN  {[export |-> e, ret |-> Column(r, "VEH_MAKE_ID"), raises |-> "none",
                 self |-> self, colours |-> cl, states |-> sl] : e \in df, r \in df} :
        cl \in top_vehicle_colour_li(self), sl \in top_states_li(self)}

Call(k, self) ==
    CASE k = 1 -> analysis1(self)
      [] k = 2 -> analysis2(self)
      [] k = 3 -> analysis3(self)
      [] k = 4 -> analysis4(self)
      [] k = 5 -> analysis5(self)
      [] k = 6 -> analysis6(self)
      [] k = 7 -> analysis7(self)
      [] k = 8 -> analysis8(self)

-----------------------------------------------------------------------------
(* __main__ *)

\* The positions of __main__: before the object is constructed, at each of
\* the eight print statements, at spark.stop(), after it, and after an
\* uncaught exception.
Line == <<"print1", "print2", "print3", "print4", "print5", "print6",
          "print7", "print8", "stop">>

Self ==
    [charges |-> charges, damages |-> damages, endorse |-> endorse,
     primary |-> primary, restrict |-> restrict, units |-> units]

SetSelf(s) ==
    /\ charges' = s.charges
    /\ damages' = s.damages
    /\ endorse' = s.endorse
    /\ primary' = s.primary
    /\ restrict' = s.restrict
    /\ units' = s.units

\* Variant: the exception is caught and the script goes on to its next line.
RaiseCaught(e) ==
    /\ err' = e
    /\ pc' = IF pc = "construct" THEN Line[1]
             ELSE Line[(CHOOSE i \in 1..8 : Line[i] = pc) + 1]

\* Variant: a file that cannot be read is taken to be empty.
ConstructLenient ==
    /\ pc = "construct"
    /\ \E readable \in BOOLEAN :
          /\ IF readable THEN SetSelf(files) ELSE UNCHANGED tables
          /\ pc' = Line[1]
          /\ err' = IF readable THEN err ELSE "IngestionError"
    /\ UNCHANGED <<files, started, completed, result, written, exported,
                   printed, top_li>>

Raise(e) ==
    /\ pc' = "aborted"
    /\ err' = e

\* analysis = CarCrashAnalysis(data['input']): the six files are read in
\* turn; a file that cannot be read raises and no object is made.
Construct ==
    /\ pc = "construct"
    /\ \E readable \in BOOLEAN :
          IF readable
          THEN /\ SetSelf(files)
               /\ pc' = Line[1]
               /\ err' = err
          ELSE /\ Raise("IngestionError")
               /\ UNCHANGED tables
    /\ UNCHANGED <<files, started, completed, result, written, exported,
                   printed, top_li>>

\* One call analysis.analysis<k>(output['out<k>']), with the print around
\* it when echo holds.  The call may raise before its file is written (an
\* operator of the engine fails) or while writing it; otherwise the file is
\* written and the call returns or raises as the analysis decides.  An
\* exception is caught nowhere.  after is the position a return leads to.
Invoke(k, after, echo) ==
    /\ started' = started \cup {k}
    /\ files' = files
    /\ \E fault \in {"none", "operator", "export"}, o \in Call(k, Self) :
          IF fault # "none"
          THEN /\ Raise(IF fault = "operator" THEN "OperatorError"
                        ELSE "ExportError")
               /\ UNCHANGED <<tables, completed, result, written, exported,
                              printed, top_li>>
          ELSE /\ SetSelf(o.self)
               /\ written' = written \cup {k}
               /\ exported' = [exported EXCEPT ![k] = o.export]
               /\ top_li' = IF k = 8
                            THEN [colours |-> o.colours, states |-> o.states]
                            ELSE top_li
               /\ IF o.raises # "none"
                  THEN /\ Raise(o.raises)
                       /\ UNCHANGED <<completed, result, printed>>
                  ELSE /\ completed' = completed \cup {k}
                       /\ result' = [result EXCEPT ![k] = o.ret]
                       /\ printed' = IF echo
                                     THEN Append(printed, [n |-> k, value |-> o.ret])
                                     ELSE printed
                       /\ pc' = after
                       /\ err' = err

Print1 == pc = Line[1] /\ Invoke(1, Line[2], TRUE)
Print2 == pc = Line[2] /\ Invoke(2, Line[3], TRUE)
Print3 == pc = Line[3] /\ Invoke(3, Line[4], TRUE)
Print4 == pc = Line[4] /\ Invoke(4, Line[5], TRUE)
Print5 == pc = Line[5] /\ Invoke(5, Line[6], TRUE)
Print6 == pc = Line[6] /\ Invoke(6, Line[7], TRUE)
Print7 == pc = Line[7] /\ Invoke(7, Line[8], TRUE)
Print8 == pc = Line[8] /\ Invoke(8, Line[9], TRUE)

\* spark.stop()
Stop ==
    /\ pc = "stop"
    /\ pc' = "done"
    /\ UNCHANGED <<files, tables, started, completed, result, written,
                   exported, printed, top_li, err>>

Next ==
    \/ Construct
    \/ Print1 \/ Print2 \/ Print3 \/ Print4
    \/ Print5 \/ Print6 \/ Print7 \/ Print8
    \/ Stop

\* A caller that, once the object is constructed, calls the analyses it has
\* not called yet in any order, without printing.
CallAnyOrder == \E k \in Analyses \ started : pc = Line[1] /\ Invoke(k, Line[1], FALSE)

NextAnyOrder == Construct \/ CallAnyOrder

-----------------------------------------------------------------------------
(* Input files *)

PrimaryRow(crash, sev, gndr, state, eth, zip, lic) ==
    [CRASH_ID |-> crash, PRSN_INJRY_SEV_ID |-> sev, PRSN_GNDR_ID |-> gndr,
     DRVR_LIC_STATE_ID |-> state, PRSN_ETHNICITY_ID |-> eth, DRVR_ZIP |-> zip,
     DRVR_LIC_TYPE_ID |-> lic]

UnitsRow(crash, body, make, inj, death, colour, state, c1, c2) ==
    [CRASH_ID |-> crash, VEH_BODY_STYL_ID |-> body, VEH_MAKE_ID |-> make,
     TOT_INJRY_CNT |-> inj, DEATH_CNT |-> death, VEH_COLOR_ID |-> colour,
     VEH_LIC_STATE_ID |-> state, CONTRIB_FACTR_1_ID |-> c1,
     CONTRIB_FACTR_2_ID |-> c2]

ChargesRow(crash, charge) == [CRASH_ID |-> crash, CHARGE |-> charge]

DamagesRow(crash, prop, scl1, scl2, fin) ==
    [CRASH_ID |-> crash, DAMAGED_PROPERTY |-> prop, VEH_DMAG_SCL_1_ID |-> scl1,
     VEH_DMAG_SCL_2_ID |-> scl2, FIN_RESP_TYPE_ID |-> fin]

\* A small set of files on which no analysis meets a tie.
BaseFiles ==
    [charges |-> <<ChargesRow("1", "SPEEDING"), ChargesRow("2", "DUI")>>,
     damages |-> <<DamagesRow("1", "NONE", "DAMAGED 5", "NA",
                              "PROOF OF LIABILITY INSURANCE"),
                   DamagesRow("2", "FENCE", "DAMAGED 7 HIGHEST", "NO DAMAGE",
                              "PROOF OF LIABILITY INSURANCE")>>,
     endorse |-> <<[CRASH_ID |-> "1"]>>,
     primary |-> <<PrimaryRow("1", "KILLED", "MALE", "TX", "WHITE", "78701",
                              "DRIVER LICENSE"),
                   PrimaryRow("1", "NOT INJURED", "FEMALE", "TX", "WHITE",
                              "78701", "DRIVER LICENSE"),
                   PrimaryRow("2", "KILLED", "FEMALE", "TX", "HISPANIC", NULL,
                              "UNLICENSED")>>,
     restrict |-> <<[CRASH_ID |-> "2"]>>,
     units |-> <<UnitsRow("1", "MOTORCYCLE", "HONDA", "1", "1", "BLK", "TX",
                          "UNDER INFLUENCE - ALCOHOL", "NA"),
                 UnitsRow("2", "PASSENGER CAR, 4-DOOR", "FORD", "2", "0", "BLK",
                          "TX", "NA", "HAD BEEN DRINKING"),
                 UnitsRow("3", "NA", "NA", "0", "x", "NA", "NA", "NA", "NA")>>]

\* All sequences of at most n elements of S.
SeqsUpTo(S, n) == UNION {[1..m -> S] : m \in 0..n}

\* Primary files of at most MaxPrimary persons of one crash.
MaxPrimary == 3

PrimaryRows ==
    {PrimaryRow("1", "KILLED", "MALE", "TX", "WHITE", "78701", "DRIVER LICENSE")}
    \cup {PrimaryRow("1", "NOT INJURED", "FEMALE", s, "WHITE", "78701",
                     "DRIVER LICENSE") : s \in {"TX", "OK", NULL}}

PrimaryFiles ==
    {[BaseFiles EXCEPT !.primary = p] : p \in SeqsUpTo(PrimaryRows, MaxPrimary)}

InitWith(F) ==
    /\ pc = "construct"
    /\ files \in F
    /\ charges = <<>>
    /\ damages = <<>>
    /\ endorse = <<>>
    /\ primary = <<>>
    /\ restrict = <<>>
    /\ units = <<>>
    /\ started = {}
    /\ completed = {}
    /\ result = [k \in Analyses |-> <<>>]
    /\ written = {}
    /\ exported = [k \in Analyses |-> <<>>]
    /\ printed = <<>>
    /\ top_li = [colours |-> <<>>, states |-> <<>>]
    /\ err = "none"

Init == InitWith(PrimaryFiles)

Spec == Init /\ [][Next]_vars

\* A few small sets of files for the caller in any order: the base files,
\* files on which analysis 3 meets a tie, files with no person, and files
\* with no charge and no damage.
AnyOrderFiles ==
    {BaseFiles,
     [BaseFiles EXCEPT !.primary[3].DRVR_LIC_STATE_ID = "OK",
                       !.primary[1].PRSN_GNDR_ID = "FEMALE"],
     [BaseFiles EXCEPT !.primary = <<>>],
     [BaseFiles EXCEPT !.damages = <<>>, !.charges = <<>>]}

InitAnyOrder == InitWith(AnyOrderFiles)

SpecAnyOrder == InitAnyOrder /\ [][NextAnyOrder]_vars

\* Damages files of at most MaxDamages records, against Units files of one
\* or several units per crash (one of them with no CRASH_ID).
MaxDamages == 2

Insured == "PROOF OF LIABILITY INSURANCE"

DamagesRows ==
    {DamagesRow("1", "NONE", "DAMAGED 5", "NA", Insured),
     DamagesRow("1", "NONE", "DAMAGED 4", "DAMAGED 10", Insured),
     DamagesRow("1", "NONE", "NO DAMAGE", "DAMAGED 7 HIGHEST", Insured),
     DamagesRow("1", "NONE", "NA", "INVALID VALUE", Insured),
     DamagesRow("1", "FENCE", "DAMAGED 5", "DAMAGED 5", Insured),
     DamagesRow("1", "NONE1", "DAMAGED 5", NULL, "NA"),
     DamagesRow("1", NULL, "DAMAGED 5", "DAMAGED 5", Insured),
     DamagesRow("1", "NONE1", NULL, "DAMAGED 5", Insured),
     DamagesRow("2", "NONE1", "DAMAGED 5", "NA", Insured),
     DamagesRow("2", "NONE", "DAMAGED 1 MINIMUM", "DAMAGED 10", Insured),
     DamagesRow("2", "NONE", "DAMAGED 7 HIGHEST", "NO DAMAGE", NULL),
     DamagesRow("2", "NA", "DAMAGED 5", "DAMAGED 5", Insured),
     DamagesRow(NULL, "NONE", "DAMAGED 5", "DAMAGED 5", Insured)}

UnitOfCrash(c) == [BaseFiles.units[1] EXCEPT !.CRASH_ID = c]

DamagesFiles ==
    {[BaseFiles EXCEPT !.damages = d, !.units = u] :
        d \in SeqsUpTo(DamagesRows, MaxDamages),
        u \in {<<UnitOfCrash("1")>>,
               <<UnitOfCrash("1"), UnitOfCrash("2"), UnitOfCrash("1")>>,
               <<UnitOfCrash("2"), UnitOfCrash(NULL)>>}}

Init7 == InitWith(DamagesFiles)

Spec7 == Init7 /\ [][Next]_vars

\* Units files for analysis 4: a block of n makes, one unit each, with the
\* sums 20, 19, ... (so that the k-th make of the block has rank k),
\* followed by at most MaxExtraUnits further units, which may make two
\* sums equal, change the ranks, add a make, add make 'NA' or a unit with
\* no make, or carry a count that is not a number.
MaxExtraUnits == 1

MaxMakes == 16

MakeNames ==
    <<"M01", "M02", "M03", "M04", "M05", "M06", "M07", "M08", "M09", "M10",
      "M11", "M12", "M13", "M14", "M15", "M16", "M17", "M18">>

MakeUnit(make, inj, death) ==
    UnitsRow("3", "VAN", make, inj, death, "BLK", "TX", "NA", "NA")

MakeBlock(n) == [i \in 1..n |-> MakeUnit(MakeNames[i], Decimal[22 - i], "0")]

ExtraUnits ==
    {MakeUnit(m, "1", "0") :
        m \in {MakeNames[4], MakeNames[5], MakeNames[MaxMakes - 1],
               MakeNames[MaxMakes]}}
    \cup {MakeUnit(MakeNames[5], "x", "1"), MakeUnit(MakeNames[MaxMakes], "1", "1"),
          MakeUnit("NA", "20", "1"), MakeUnit(NULL, "20", "1")}

MakesFiles ==
    {[BaseFiles EXCEPT !.units = MakeBlock(n) \o x] :
        n \in {3, 4, MaxMakes - 2, MaxMakes - 1, MaxMakes},
        x \in SeqsUpTo(ExtraUnits, MaxExtraUnits)}

\* Primary files for analysis 5: at most MaxPersons persons of two crashes
\* and three ethnicities (one missing), against Units files of several body
\* styles per crash.
MaxPersons == 2

PersonRows ==
    {PrimaryRow(c, "NOT INJURED", "FEMALE", "TX", e, "78701", "DRIVER LICENSE") :
        c \in {"1", "2"}, e \in {"WHITE", "HISPANIC", NULL}}

BodyUnit(c, body) == UnitsRow(c, body, "FORD", "0", "0", "BLK", "TX", "NA", "NA")

PersonsFiles ==
    {[BaseFiles EXCEPT !.primary = p, !.units = u] :
        p \in SeqsUpTo(PersonRows, MaxPersons),
        u \in {<<BodyUnit("1", "VAN"), BodyUnit("2", "NA")>>,
               <<BodyUnit("1", "VAN"), BodyUnit("1", "VAN"), BodyUnit("1", "BUS"),
                 BodyUnit("1", "NA"), BodyUnit("2", "VAN")>>,
               <<BodyUnit("1", "VAN"), BodyUnit("1", "BUS"), BodyUnit("2", NULL),
                 BodyUnit("3", "BUS")>>}}

InitRank == InitWith(MakesFiles \cup PersonsFiles)

SpecRank == InitRank /\ [][Next]_vars

\* Units files for analysis 8: 11 colours and 26 license states besides
\* 'NA', every colour and every state with its own number of units, 'NA'
\* the most frequent of both, the 10th and 11th colour and the 25th and
\* 26th state one unit apart.  BulkRuns gives <<colour, state, n>> for n
\* units of crashes with no charge; ChargedRuns gives <<colour, state, make,
\* crash, n, injuries>> for n units of crashes that may carry a charge.  At most
\* MaxExtraUnits further units of the 10th or 11th colour or 'NA', of the
\* 25th or 26th state or 'NA', follow.
BulkRuns ==
    <<<<"NA", "NA", 45>>, <<"NA", "S01", 7>>, <<"NA", "S02", 26>>,
      <<"NA", "S03", 25>>, <<"NA", "S04", 24>>, <<"NA", "S05", 23>>,
      <<"NA", "S06", 22>>, <<"NA", "S07", 21>>, <<"NA", "S08", 20>>,
      <<"NA", "S09", 10>>, <<"C01", "S09", 6>>, <<"C02", "S09", 3>>,
      <<"C02", "S10", 18>>, <<"C02", "S11", 7>>, <<"C03", "S11", 10>>,
      <<"C03", "S12", 16>>, <<"C04", "S13", 15>>, <<"C04", "S14", 9>>,
      <<"C05", "S14", 5>>, <<"C05", "S15", 13>>, <<"C05", "S16", 4>>,
      <<"C06", "S16", 8>>, <<"C06", "S17", 11>>, <<"C06", "S18", 1>>,
      <<"C07", "S18", 9>>, <<"C07", "S19", 9>>, <<"C08", "S20", 8>>,
      <<"C08", "S21", 7>>, <<"C08", "S22", 1>>, <<"C09", "S22", 5>>,
      <<"C09", "S23", 5>>, <<"C09", "S24", 4>>, <<"C10", "S25", 2>>,
      <<"C11", "S26", 1>>>>

ChargedRuns ==
    <<<<"C01", "S01", "MK1", "1", 11, "1">>, <<"C01", "S01", "MK2", "2", 9, "1">>,
      <<"C01", "S01", "MK3", "1", 7, "1">>, <<"C01", "S01", "MK4", "1", 5, "1">>,
      <<"C01", "S01", "MK5", "1", 2, "1">>, <<"C01", "S01", "MK6", "1", 1, "1">>,
      <<"C10", "S01", "MK5", "1", 1, "0">>, <<"C11", "S01", "MK6", "1", 1, "0">>,
      <<"C01", "S25", "MK4", "1", 1, "0">>, <<"C01", "S26", "MK3", "1", 1, "0">>,
      <<"NA", "S01", "MK2", "2", 1, "0">>, <<"C01", "NA", "MK1", "1", 1, "0">>>>

BulkUnits ==
    Flatten([k \in DOMAIN BulkRuns |->
        [j \in 1..BulkRuns[k][3] |->
            UnitsRow("9", "VAN", "BULK", "0", "0", BulkRuns[k][1],
                     BulkRuns[k][2], "NA", "NA")]])

ChargedUnits ==
    Flatten([k \in DOMAIN ChargedRuns |->
        [j \in 1..ChargedRuns[k][5] |->
            UnitsRow(ChargedRuns[k][4], "VAN", ChargedRuns[k][3],
                     ChargedRuns[k][6], "0",
                     ChargedRuns[k][1], ChargedRuns[k][2], "NA", "NA")]])

ExtraColourUnits ==
    {UnitsRow("1", "VAN", "MK6", "0", "0", c, s, "NA", "NA") :
        c \in {"C10", "C11", "NA"}, s \in {"S25", "S26", "NA"}}

Driver(c, lic) ==
    PrimaryRow(c, "NOT INJURED", "FEMALE", "TX", "WHITE", "78701", lic)

ColourFiles ==
    {[BaseFiles EXCEPT !.units = BulkUnits \o ChargedUnits \o x,
                       !.charges = c, !.primary = p] :
        x \in SeqsUpTo(ExtraColourUnits, MaxExtraUnits),
        c \in {<<ChargesRow("1", "SPEEDING"), ChargesRow("2", "DUI")>>,
               <<ChargesRow("1", "DUI"), ChargesRow("1", "FAIL TO CONTROL SPEED"),
                 ChargesRow("1", "SPEEDING"), ChargesRow("2", "SPEEDING")>>},
        p \in {<<Driver("1", "DRIVER LICENSE"), Driver("1", "UNLICENSED"),
                 Driver("2", "COMMERCIAL DRIVER LIC.")>>,
               <<Driver("1", "DRIVER LICENSE"), Driver("1", "COMMERCIAL DRIVER LIC."),
                 Driver("1", NULL), Driver("2", "DRIVER LICENSE")>>}}

Init8 == InitWith(ColourFiles)

Spec8 == Init8 /\ [][Next]_vars

-----------------------------------------------------------------------------
(* Properties of __main__ *)

Loaded == pc # "construct" /\ err # "IngestionError"

IsPrefix(s, t) == Len(s) <= Len(t) /\ SubSeq(t, 1, Len(s)) = s

\* __main__ is at the statement after print k: analysis k has just
\* returned and its line is printed.
Returned(k) == k \in completed /\ pc = Line[k + 1]

\* C1: the analyses are called in the order 1, 2, ..., 8 (analysis k is
\* called only when exactly analyses 1..k-1 have been called and all of
\* them have returned), each against the six tables as loaded from the
\* files, and the run ends normally only when all eight analyses have
\* returned and all eight files have been written.
C1_State ==
    /\ started = 1..Cardinality(started)
    /\ \A k \in started : \A j \in 1..(k - 1) : j \in completed
    /\ pc = "done" => completed = Analyses /\ written = Analyses

C1_Step ==
    \A k \in started' \ started :
        /\ started = 1..(k - 1)
        /\ completed = 1..(k - 1)
        /\ Self = files

C1_FixedOrder == []C1_State /\ [][C1_Step]_vars

C1_Witness == pc = "done" /\ completed = Analyses /\ Len(printed) = 8

\* C2: line N is on the console only if the six files were loaded and every
\* analysis 1..N has returned and written its file; after a load failure
\* nothing is printed and no analysis is called; after a failure in
\* analysis k the lines are exactly those of 1..k-1 and no analysis after k
\* is called; a printed line stays.
C2_State ==
    /\ \A i \in DOMAIN printed :
          /\ printed[i].n = i
          /\ Loaded
          /\ \A j \in 1..i : j \in completed /\ j \in written
    /\ err = "IngestionError" => printed = <<>> /\ started = {}
    /\ \A k \in started \ completed :
          /\ pc = "aborted"
          /\ Len(printed) = k - 1
          /\ started = 1..k

C2_Step == IsPrefix(printed, printed')

C2_LinesOnlyAfterSuccess == []C2_State /\ [][C2_Step]_vars

C2_Witness ==
    /\ pc = "aborted"
    /\ err = "ExportError"
    /\ started = 1..4
    /\ Len(printed) = 3

\* C10: when Primary has no row with gender FEMALE, analysis 3 never
\* returns: unless the engine or the export failed first, it writes an
\* empty file and then raises IndexError; lines 1 and 2 are on the console
\* and no other line is ever printed.
NoFemale(p) == \A i \in DOMAIN p : p[i].PRSN_GNDR_ID # "FEMALE"

C10_EmptyFemaleFails ==
    (NoFemale(files.primary) /\ 3 \in started) =>
        /\ pc = "aborted"
        /\ 3 \notin completed
        /\ Column(printed, "n") = <<1, 2>>
        /\ err \in {"OperatorError", "ExportError", "IndexError"}
        /\ (3 \in written) = (err = "IndexError")
        /\ 3 \in written => exported[3] = <<>>

C10_Witness ==
    /\ NoFemale(files.primary)
    /\ err = "IndexError"
    /\ 3 \in written
    /\ exported[3] = <<>>
    /\ Len(printed) = 2

-----------------------------------------------------------------------------
(* Analysis 3 *)

FemaleCount(p, s) ==
    Cardinality({i \in DOMAIN p :
        p[i].PRSN_GNDR_ID = "FEMALE" /\ p[i].DRVR_LIC_STATE_ID = s})

FemaleStates(p) ==
    {p[i].DRVR_LIC_STATE_ID : i \in {j \in DOMAIN p : p[j].PRSN_GNDR_ID = "FEMALE"}}

MaxFemaleStates(p) ==
    {s \in FemaleStates(p) :
        \A t \in FemaleStates(p) : FemaleCount(p, s) >= FemaleCount(p, t)}

\* The state of the first FEMALE row among the states with maximal count.
FirstSeenMaxState(p) ==
    LET first(s) == CHOOSE i \in DOMAIN p :
                        /\ p[i].PRSN_GNDR_ID = "FEMALE"
                        /\ p[i].DRVR_LIC_STATE_ID = s
                        /\ \A j \in 1..(i - 1) :
                              ~(/\ p[j].PRSN_GNDR_ID = "FEMALE"
                                /\ p[j].DRVR_LIC_STATE_ID = s)
    IN  CHOOSE s \in MaxFemaleStates(p) :
            \A t \in MaxFemaleStates(p) : first(s) <= first(t)

-----------------------------------------------------------------------------
(* Frame *)

\* C8: no analysis changes any of the six tables, and what an analysis
\* returns and writes is one of the outcomes it has on the tables as
\* loaded, whichever analyses were called before it and in whatever order.
C8_State ==
    /\ Loaded => Self = files
    /\ \A k \in completed :
          \E o \in Call(k, files) :
              o.raises = "none" /\ o.ret = result[k] /\ o.export = exported[k]

C8_Step == pc # "construct" => tables' = tables

-----------------------------------------------------------------------------
(* Analysis 7 *)

\* A damage scale value counts when it is greater than 'DAMAGED 4' as a
\* string and is none of the three excluded values.
Severe(v) ==
    /\ v # NULL
    /\ StrGreater(v, "DAMAGED 4")
    /\ v \notin {"INVALID VALUE", "NA", "NO DAMAGE"}

\* The pair (u, d) is a row of the inner join of Units with Damages on
\* CRASH_ID that passes the three filters.
Counted7(u, d) ==
    /\ u.CRASH_ID # NULL
    /\ u.CRASH_ID = d.CRASH_ID
    /\ d.DAMAGED_PROPERTY # NULL
    /\ StrContains(d.DAMAGED_PROPERTY, "NONE")
    /\ d.FIN_RESP_TYPE_ID = "PROOF OF LIABILITY INSURANCE"
    /\ (Severe(d.VEH_DMAG_SCL_2_ID) \/ Severe(d.VEH_DMAG_SCL_1_ID))

CrashIds7(f) ==
    {f.units[i].CRASH_ID : i \in {j \in DOMAIN f.units :
        \E k \in DOMAIN f.damages : Counted7(f.units[j], f.damages[k])}}

-----------------------------------------------------------------------------
(* Analysis 4 *)

IsNumber(s) == \E i \in DOMAIN Decimal : Decimal[i] = s

NumberOf(s) == (CHOOSE i \in DOMAIN Decimal : Decimal[i] = s) - 1

\* The units of make m whose two counts are both numbers.
CountedUnits(u, m) ==
    {i \in DOMAIN u : /\ u[i].VEH_MAKE_ID = m
                      /\ IsNumber(u[i].TOT_INJRY_CNT)
                      /\ IsNumber(u[i].DEATH_CNT)}

RECURSIVE SumOver(_, _)
SumOver(u, I) ==
    IF I = {} THEN 0
    ELSE LET i == CHOOSE j \in I : TRUE
         IN  NumberOf(u[i].TOT_INJRY_CNT) + NumberOf(u[i].DEATH_CNT)
                 + SumOver(u, I \ {i})

\* injuries + deaths of make m; a make with no counted unit has no sum and
\* is ranked after every make that has one.
InjuryDeathSum(u, m) ==
    IF CountedUnits(u, m) = {} THEN NullNum ELSE SumOver(u, CountedUnits(u, m))

\* The makes that are ranked: every make but 'NA' (and but a missing make).
RankedMakes(u) == {u[i].VEH_MAKE_ID : i \in DOMAIN u} \ {"NA", NULL}

Before(a, b) == a # NullNum /\ (b = NullNum \/ a > b)

MinOf(a, b) == IF a < b THEN a ELSE b
MaxOf(a, b) == IF a > b THEN a ELSE b

\* r is a list of the makes ranked 5 to 15 by descending sum, for some way
\* of ordering the makes with equal sums.
IsRank5To15(u, r) ==
    LET k == Cardinality(RankedMakes(u))
        sum == [m \in RankedMakes(u) |-> InjuryDeathSum(u, m)]
    IN  /\ Len(r) = MinOf(MaxOf(k - 4, 0), 11)
        /\ \A i \in DOMAIN r : r[i] \in RankedMakes(u)
        /\ \A i, j \in DOMAIN r : i # j => r[i] # r[j]
        /\ \A i, j \in DOMAIN r : i < j => ~Before(sum[r[j]], sum[r[i]])
        /\ \A i \in DOMAIN r :
              /\ Cardinality({m \in RankedMakes(u) : Before(sum[m], sum[r[i]])})
                     <= i + 3
              /\ Cardinality({m \in RankedMakes(u) : ~Before(sum[r[i]], sum[m])})
                     >= i + 4

\* C4: analysis 4 returns the makes ranked 5 to 15, in descending order of
\* their sum of injuries and deaths over all units of the make, among the k
\* makes other than 'NA': min(max(k - 4, 0), 11) makes, none when k = 4.
\* The file written holds such a list too, with the ranks 5, 6, ...
C4_Rank5To15 ==
    Returned(4) =>
        /\ IsRank5To15(files.units, result[4])
        /\ IsRank5To15(files.units, Column(exported[4], "VEH_MAKE_ID"))
        /\ \A i \in DOMAIN exported[4] : exported[4][i].rn = i + 4

C4_Witness ==
    /\ Returned(4)
    /\ Len(result[4]) = 11
    /\ \E i \in DOMAIN files.units :
          /\ files.units[i].VEH_MAKE_ID = "NA"
          /\ files.units[i].TOT_INJRY_CNT = "20"

\* The position of the first unit of make m.
FirstUnit(u, m) == CHOOSE i \in DOMAIN u :
    u[i].VEH_MAKE_ID = m /\ \A j \in 1..(i - 1) : u[j].VEH_MAKE_ID # m

\* The rank of make m when equal sums are ordered by first row position.
PositionRank(u, m) ==
    1 + Cardinality({n \in RankedMakes(u) :
            \/ Before(InjuryDeathSum(u, n), InjuryDeathSum(u, m))
            \/ /\ InjuryDeathSum(u, n) = InjuryDeathSum(u, m)
               /\ FirstUnit(u, n) < FirstUnit(u, m)})

PositionRanked4(u) ==
    [i \in 1..MinOf(MaxOf(Cardinality(RankedMakes(u)) - 4, 0), 11) |->
        CHOOSE m \in RankedMakes(u) : PositionRank(u, m) = i + 4]

\* Two makes have equal sums and one of them is ranked 5 to 15 by row
\* position.
TieIn5To15(u) ==
    \E m, n \in RankedMakes(u) :
        /\ m # n
        /\ InjuryDeathSum(u, m) = InjuryDeathSum(u, n)
        /\ PositionRank(u, m) \in 5..15

-----------------------------------------------------------------------------
(* Analysis 5 *)

\* The number of rows of the join of Primary with Units on CRASH_ID with
\* body style b and ethnicity e.
JoinCount(f, b, e) ==
    Cardinality({x \in (DOMAIN f.primary) \X (DOMAIN f.units) :
        /\ f.primary[x[1]].CRASH_ID # NULL
        /\ f.primary[x[1]].CRASH_ID = f.units[x[2]].CRASH_ID
        /\ f.units[x[2]].VEH_BODY_STYL_ID = b
        /\ f.primary[x[1]].PRSN_ETHNICITY_ID = e})

Ethnicities(f) == {f.primary[i].PRSN_ETHNICITY_ID : i \in DOMAIN f.primary}

\* The body styles of the join other than 'NA' (and other than a missing
\* body style).
JoinedBodyStyles(f) ==
    {b \in {f.units[i].VEH_BODY_STYL_ID : i \in DOMAIN f.units} \ {"NA", NULL} :
        \E e \in Ethnicities(f) : JoinCount(f, b, e) > 0}

TopEthnicities(f, b) ==
    {e \in Ethnicities(f) :
        /\ JoinCount(f, b, e) > 0
        /\ \A d \in Ethnicities(f) : JoinCount(f, b, e) >= JoinCount(f, b, d)}

IsTopPerBodyStyle(f, r) ==
    /\ Len(r) = Cardinality(JoinedBodyStyles(f))
    /\ {r[i].VEH_BODY_STYL_ID : i \in DOMAIN r} = JoinedBodyStyles(f)
    /\ \A i \in DOMAIN r :
          r[i].PRSN_ETHNICITY_ID \in TopEthnicities(f, r[i].VEH_BODY_STYL_ID)

\* C7: analysis 5 returns exactly one (body style, ethnicity) pair for every
\* body style other than 'NA' of the join of Primary with Units on CRASH_ID
\* and none for 'NA'; the ethnicity of a pair has a number of joined rows
\* (persons times units per crash) that no other ethnicity of the body
\* style exceeds.  The file written holds such pairs too, with that count.
C7_TopEthnicityPerBodyStyle ==
    Returned(5) =>
        /\ IsTopPerBodyStyle(files, result[5])
        /\ IsTopPerBodyStyle(files, exported[5])
        /\ \A i \in DOMAIN exported[5] :
              exported[5][i].count =
                  JoinCount(files, exported[5][i].VEH_BODY_STYL_ID,
                            exported[5][i].PRSN_ETHNICITY_ID)

C7_Witness ==
    /\ Returned(5)
    /\ Len(result[5]) = 2
    /\ \E i \in DOMAIN files.units : files.units[i].VEH_BODY_STYL_ID = "NA"
    /\ \E i \in DOMAIN result[5] :
          JoinCount(files, result[5][i].VEH_BODY_STYL_ID,
                    result[5][i].PRSN_ETHNICITY_ID) = 4

\* The first joined row (in row order of Primary, then Units) of body style
\* b and ethnicity e.
FirstJoined(f, b, e) ==
    CHOOSE x \in (DOMAIN f.primary) \X (DOMAIN f.units) :
        /\ f.primary[x[1]].CRASH_ID = f.units[x[2]].CRASH_ID
        /\ f.units[x[2]].VEH_BODY_STYL_ID = b
        /\ f.primary[x[1]].PRSN_ETHNICITY_ID = e
        /\ \A y \in (DOMAIN f.primary) \X (DOMAIN f.units) :
              (/\ f.primary[y[1]].CRASH_ID = f.units[y[2]].CRASH_ID
               /\ f.units[y[2]].VEH_BODY_STYL_ID = b
               /\ f.primary[y[1]].PRSN_ETHNICITY_ID = e)
              => (x[1] < y[1] \/ (x[1] = y[1] /\ x[2] <= y[2]))

RowBefore(x, y) == x[1] < y[1] \/ (x[1] = y[1] /\ x[2] <= y[2])

\* The pairs analysis 5 would return were equal counts ordered by first row
\* position.
PositionRanked5(f) ==
    {[VEH_BODY_STYL_ID |-> b,
      PRSN_ETHNICITY_ID |->
          CHOOSE e \in TopEthnicities(f, b) :
              \A d \in TopEthnicities(f, b) :
                  RowBefore(FirstJoined(f, b, e), FirstJoined(f, b, d))] :
        b \in JoinedBodyStyles(f)}

TieAtTop5(f) ==
    \E b \in JoinedBodyStyles(f) : Cardinality(TopEthnicities(f, b)) > 1

-----------------------------------------------------------------------------
(* Analysis 8 *)

Frequency(u, c, v) == Cardinality({i \in DOMAIN u : u[i][c] = v})

\* S holds the (up to) n most frequent values of column c of u other than
\* 'NA' (and other than a missing value).
IsTopOf(u, c, S, n) ==
    LET V == {u[i][c] : i \in DOMAIN u} \ {"NA", NULL}
        freq == [v \in V |-> Frequency(u, c, v)]
    IN  /\ S \subseteq V
        /\ Cardinality(S) = MinOf(n, Cardinality(V))
        /\ \A a \in S : \A b \in V \ S : freq[a] >= freq[b]

RECURSIVE SumOfWeights(_, _, _)
SumOfWeights(u, I, w) ==
    IF DOMAIN w = {} THEN 0
    ELSE LET c == CHOOSE d \in DOMAIN w : TRUE
             rest == [d \in DOMAIN w \ {c} |-> w[d]]
         IN  Cardinality({i \in I : u[i].CRASH_ID = c}) * w[c]
                 + SumOfWeights(u, I, rest)

\* The number of rows of make m among the units of a colour in cs and a
\* state in ss, joined with the charges that contain SPEED and the persons
\* whose license type contains DRIVER, on CRASH_ID.
SpeedingCount(f, cs, ss, m) ==
    LET us == {i \in DOMAIN f.units :
                  /\ f.units[i].VEH_MAKE_ID = m
                  /\ f.units[i].VEH_COLOR_ID \in cs
                  /\ f.units[i].VEH_LIC_STATE_ID \in ss
                  /\ f.units[i].CRASH_ID # NULL}
        speed(c) == Cardinality({k \in DOMAIN f.charges :
                        /\ f.charges[k].CRASH_ID = c
                        /\ f.charges[k].CHARGE # NULL
                        /\ StrContains(f.charges[k].CHARGE, "SPEED")})
        driver(c) == Cardinality({k \in DOMAIN f.primary :
                        /\ f.primary[k].CRASH_ID = c
                        /\ f.primary[k].DRVR_LIC_TYPE_ID # NULL
                        /\ StrContains(f.primary[k].DRVR_LIC_TYPE_ID, "DRIVER")})
        crashes == {f.units[i].CRASH_ID : i \in us}
        weight == [c \in crashes |-> speed(c) * driver(c)]
    IN  SumOfWeights(f.units, us, weight)

\* r lists the (up to) 5 makes with the largest counts in descending order.
IsTop5Makes(f, cs, ss, r) ==
    LET M == {f.units[i].VEH_MAKE_ID : i \in DOMAIN f.units}
        cnt == [m \in M |-> SpeedingCount(f, cs, ss, m)]
        P == {m \in M : cnt[m] > 0}
    IN  /\ Len(r) = MinOf(5, Cardinality(P))
        /\ \A i \in DOMAIN r : r[i] \in P
        /\ \A i, j \in DOMAIN r : i < j => r[i] # r[j] /\ cnt[r[i]] >= cnt[r[j]]
        /\ \A i \in DOMAIN r : \A m \in P \ Range(r) : cnt[r[i]] >= cnt[m]

\* C5: the colours analysis 8 keeps are the (up to) 10 most frequent colours
\* other than 'NA' among all units, the states it keeps the (up to) 25 most
\* frequent license states other than 'NA' among all units; both are fixed
\* before the joins, and only units of a kept colour and a kept state count
\* (once per matching charge that contains SPEED and per matching person
\* whose license type contains DRIVER) towards the makes.  The result is
\* the (up to) 5 makes with the largest counts, in descending order, and
\* the file written lists such makes with their counts.
C5_TopMakesOfTopColoursAndStates ==
    Returned(8) =>
        LET cs == Range(top_li.colours)
            ss == Range(top_li.states)
        IN  /\ Len(top_li.colours) = Cardinality(cs)
            /\ Len(top_li.states) = Cardinality(ss)
            /\ IsTopOf(files.units, "VEH_COLOR_ID", cs, 10)
            /\ IsTopOf(files.units, "VEH_LIC_STATE_ID", ss, 25)
            /\ IsTop5Makes(files, cs, ss, result[8])
            /\ IsTop5Makes(files, cs, ss, Column(exported[8], "VEH_MAKE_ID"))
            /\ \A i \in DOMAIN exported[8] :
                  exported[8][i].count =
                      SpeedingCount(files, cs, ss, exported[8][i].VEH_MAKE_ID)

C5_Witness ==
    /\ Returned(8)
    /\ Len(top_li.colours) = 10
    /\ Len(top_li.states) = 25
    /\ "C11" \in Range(top_li.colours)
    /\ Len(result[8]) = 5
    /\ Cardinality({files.units[i].VEH_MAKE_ID : i \in DOMAIN files.units}) > 6

=============================================================================
